---- MODULE Spec2Model ----
(***************************************************************************)
(* Model of poepenai: the retried upstream query session                   *)
(* (client.StreamQuery), the per-request handler that consumes it          *)
(* (handlers.HandleChatCompletions), the event-to-chunk transducer and the *)
(* response aggregator (service/mapper.go).                                *)
(*                                                                         *)
(* Strings that the code concatenates are sequences of tokens: the empty   *)
(* string is <<>>.  A JSON payload is represented by the outcome of        *)
(* decoding it: whether json.Unmarshal succeeds and which fields it finds. *)
(***************************************************************************)
EXTENDS Integers, Sequences, FiniteSets, TLC

\* ------------------------------------------------------------------ bounds

\* Events one session may parse from the upstream over all its attempts.
MaxEvents == 2

\* Events fed to the transducer in the stand-alone transducer specification.
MaxFeed == 3

\* Events collected before aggregation in the stand-alone aggregator
\* specification.
MaxAgg == 3

\* Newline-terminated lines of a response body in the stand-alone parser
\* specification (an unterminated fragment may follow them).
MaxLines == 3

\* Largest capacity asked for, and Write calls made, in the stand-alone log
\* sink specification.
MaxCap == 3
MaxWrites == 5

\* ------------------------------------------------------- program constants

maxRetries == 2

defaultBufferSize == 25

\* ---------------------------------------------------------------- payloads

\* One entry of a tool_calls array: a JSON object (map) or anything else.
ToolEntry(isMap, id) ==
    [map |-> isMap, id |-> id, type |-> "function", name |-> "f", arguments |-> "{}"]

TC1 == ToolEntry(TRUE, "1")
TC2 == ToolEntry(TRUE, "2")
Junk == ToolEntry(FALSE, "")

\* The decoded view of PoeSSEEvent.Data.
\*   ok        json.Unmarshal into the event's struct succeeds
\*   text      the "text" field (<<>> when absent or empty)
\*   hasText   the "text" field is present (PoeErrorEventData.Text is a pointer)
\*   choices   "absent": data.choices is missing, not a list or empty
\*             "nodelta": a non-empty list whose first element has no delta map
\*             "delta": choices[0].delta is a map
\*   hasDeltaTC / deltaTC    choices[0].delta.tool_calls is a list / its items
\*   deltaContent            choices[0].delta.content (<<>> when absent)
\*   hasTopTC / topTC        data.tool_calls is a list / its items
Payload(ok, hasText, text, choices, hasDeltaTC, deltaTC, deltaContent, hasTopTC, topTC) ==
    [ok |-> ok, hasText |-> hasText, text |-> text, choices |-> choices,
     hasDeltaTC |-> hasDeltaTC, deltaTC |-> deltaTC, deltaContent |-> deltaContent,
     hasTopTC |-> hasTopTC, topTC |-> topTC]

BadJSON == Payload(FALSE, FALSE, <<>>, "absent", FALSE, <<>>, <<>>, FALSE, <<>>)
EmptyObj == Payload(TRUE, FALSE, <<>>, "absent", FALSE, <<>>, <<>>, FALSE, <<>>)
TextOf(t) == Payload(TRUE, TRUE, t, "absent", FALSE, <<>>, <<>>, FALSE, <<>>)
DeltaOf(hasTC, tcs, content) ==
    Payload(TRUE, FALSE, <<>>, "delta", hasTC, tcs, content, FALSE, <<>>)
TopOf(tcs) == Payload(TRUE, FALSE, <<>>, "absent", FALSE, <<>>, <<>>, TRUE, tcs)
NoDelta == Payload(TRUE, FALSE, <<>>, "nodelta", FALSE, <<>>, <<>>, FALSE, <<>>)

PoeSSEEvent(type, data) == [Event |-> type, Data |-> data]

\* The events the upstream may send.
TextEvents ==
    { PoeSSEEvent("text", d) : d \in {TextOf(<<"Hi">>), TextOf(<<>>), BadJSON} }
ReplaceEvents ==
    { PoeSSEEvent("replace_response", d) : d \in {TextOf(<<"Re">>), BadJSON} }
JsonEvents ==
    { PoeSSEEvent("json", d) :
        d \in { DeltaOf(TRUE, <<TC1>>, <<>>), DeltaOf(TRUE, <<TC1, TC2>>, <<"c">>),
                DeltaOf(TRUE, <<>>, <<>>), DeltaOf(TRUE, <<TC1, Junk>>, <<>>),
                DeltaOf(FALSE, <<>>, <<"c">>), TopOf(<<TC2>>), NoDelta, EmptyObj,
                BadJSON } }
ErrorEvents ==
    { PoeSSEEvent("error", d) : d \in {TextOf(<<"boom">>), EmptyObj, BadJSON} }
OtherEvents ==
    { PoeSSEEvent(t, EmptyObj) : t \in {"done", "meta", "suggested_reply", "file"} }
\* A payload with tool calls under choices[0].delta and at the top level.
BothOf(deltaTCs, topTCs) ==
    Payload(TRUE, FALSE, <<>>, "delta", TRUE, deltaTCs, <<>>, TRUE, topTCs)

PoeEvents == TextEvents \cup ReplaceEvents \cup JsonEvents \cup ErrorEvents \cup OtherEvents

\* ---------------------------------------------------------------- transducer

\* mapPoeToolCallDataToOpenAI: the mapped list, or an error when an item is
\* not a map (the result is then nil).
mapPoeToolCallDataToOpenAI(tcData) ==
    IF \E i \in 1..Len(tcData) : ~tcData[i].map
    THEN [err |-> TRUE, calls |-> <<>>]
    ELSE [err |-> FALSE,
          calls |-> [i \in 1..Len(tcData) |->
                        [id |-> tcData[i].id, type |-> tcData[i].type,
                         name |-> tcData[i].name, arguments |-> tcData[i].arguments]]]

\* OpenAIStreamChoice: role "" is "no role", finish "" is a nil finish reason,
\* toolCalls <<>> is a nil slice.
Choice(role, content, toolCalls, finish) ==
    [role |-> role, content |-> content, toolCalls |-> toolCalls, finish |-> finish]

NoChoice == Choice("", <<>>, <<>>, "")

\* What one call returns: a chunk or none, an error ("" none, "skip" an
\* ordinary error, "terminate" one with the terminate_stream_with_error:
\* prefix), and the two flags the caller owns, as the call leaves them.
Result(some, chunk, err, first, tool) ==
    [some |-> some, chunk |-> chunk, err |-> err, first |-> first, tool |-> tool]

\* Mutant of Emit: the flag is left as it was when the role was set.
EmitKeepsFlag(choice, roleWasSetThisChunk, first, tool) ==
    IF choice.content = <<>> /\ choice.toolCalls = <<>> /\ choice.finish = ""
       /\ ~roleWasSetThisChunk
    THEN Result(FALSE, NoChoice, "", first, tool)
    ELSE Result(TRUE, choice, "", first, tool)

\* Mutant of Emit: an empty delta is not suppressed.
EmitNoSuppress(choice, roleWasSetThisChunk, first, tool) ==
    Result(TRUE, choice, "", IF roleWasSetThisChunk THEN FALSE ELSE first, tool)

\* Mutant of Emit: the flag is cleared also when the chunk is suppressed.
EmitClearsFlagAlways(choice, roleWasSetThisChunk, first, tool) ==
    IF choice.content = <<>> /\ choice.toolCalls = <<>> /\ choice.finish = ""
       /\ ~roleWasSetThisChunk
    THEN Result(FALSE, NoChoice, "", FALSE, tool)
    ELSE Result(TRUE, choice, "", IF roleWasSetThisChunk THEN FALSE ELSE first, tool)

\* Lines 433-473: suppress an empty delta, clear the flag when the role was set.
Emit(choice, roleWasSetThisChunk, first, tool) ==
    IF choice.content = <<>> /\ choice.toolCalls = <<>> /\ choice.finish = ""
       /\ ~roleWasSetThisChunk
    THEN Result(FALSE, NoChoice, "", first, tool)
    ELSE Result(TRUE, choice, "", IF roleWasSetThisChunk THEN FALSE ELSE first, tool)

\* case "text" and case "replace_response"
TextCase(data, first, tool) ==
    IF ~data.ok
    THEN Result(FALSE, NoChoice, "skip", first, tool)
    ELSE Emit(Choice(IF first THEN "assistant" ELSE "", data.text, <<>>, ""),
              first, first, tool)

\* The tool calls a "json" event contributes to the chunk: those under
\* choices[0].delta.tool_calls when they all map.
JsonToolCalls(data) ==
    IF data.choices = "delta" /\ data.hasDeltaTC
    THEN mapPoeToolCallDataToOpenAI(data.deltaTC).calls
    ELSE <<>>

JsonContent(data) ==
    IF data.choices = "delta" THEN data.deltaContent ELSE <<>>

\* Mutant of JsonCase: the flag is set from this event alone.
JsonCaseForgetsToolCall(data, first, tool) ==
    IF ~data.ok
    THEN Result(FALSE, NoChoice, "skip", first, tool)
    ELSE LET tcs == JsonToolCalls(data)
             content == JsonContent(data)
             roleSet == first /\ (tcs # <<>> \/ content # <<>>)
         IN  Emit(Choice(IF roleSet THEN "assistant" ELSE "", content, tcs, ""),
                  roleSet, first, tcs # <<>>)

\* case "json"
JsonCase(data, first, tool) ==
    IF ~data.ok
    THEN Result(FALSE, NoChoice, "skip", first, tool)
    ELSE LET tcs == JsonToolCalls(data)
             content == JsonContent(data)
             roleSet == first /\ (tcs # <<>> \/ content # <<>>)
         IN  Emit(Choice(IF roleSet THEN "assistant" ELSE "", content, tcs, ""),
                  roleSet, first, tool \/ tcs # <<>>)

\* Mutant of ErrorCase: an undecodable payload returns an ordinary error, as the
\* other cases do.
ErrorCaseUnparsableSkips(data, first, tool) ==
    IF ~data.ok
    THEN Result(FALSE, NoChoice, "skip", first, tool)
    ELSE Result(FALSE, NoChoice, "terminate", first, tool)

\* case "error": both branches return an error that carries the
\* terminate_stream_with_error: prefix.
ErrorCase(data, first, tool) ==
    IF ~data.ok
    THEN Result(FALSE, NoChoice, "terminate", first, tool)
    ELSE Result(FALSE, NoChoice, "terminate", first, tool)

\* Mutant of DoneFinishReason: the flag is not consulted.
DoneFinishReasonAlwaysStop(tool) == "stop"

\* The finish reason of the chunk of a "done" event.
DoneFinishReason(tool) ==
    IF tool THEN "tool_calls" ELSE "stop"

\* Mutant of DoneCase: the done event is skipped like a meta event.
DoneCaseNoChunk(first, tool) ==
    Result(FALSE, NoChoice, "", first, tool)

\* case "done"
DoneCase(first, tool) ==
    Emit(Choice(IF first THEN "assistant" ELSE "", <<>>, <<>>, DoneFinishReason(tool)),
         first, first, tool)

TransformPoeEventToOpenAIChatCompletionChunk(poeEvent, isFirstContentChunk, hasMadeToolCall) ==
    CASE poeEvent.Event \in {"text", "replace_response"} ->
            TextCase(poeEvent.Data, isFirstContentChunk, hasMadeToolCall)
      [] poeEvent.Event \in {"suggested_reply", "meta"} ->
            Result(FALSE, NoChoice, "", isFirstContentChunk, hasMadeToolCall)
      [] poeEvent.Event = "json" ->
            JsonCase(poeEvent.Data, isFirstContentChunk, hasMadeToolCall)
      [] poeEvent.Event = "error" ->
            ErrorCase(poeEvent.Data, isFirstContentChunk, hasMadeToolCall)
      [] poeEvent.Event = "done" ->
            DoneCase(isFirstContentChunk, hasMadeToolCall)
      [] OTHER ->
            Result(FALSE, NoChoice, "", isFirstContentChunk, hasMadeToolCall)

\* ---------------------------------------------------------------- aggregator

\* json.Marshal(poeRespData.Data) of the "stringify" branch: the payloads of
\* this model that reach it carry no data map, which marshals to null.
Stringify(data) == <<"null">>

ErrorMarker(text) == <<"\n[POE BOT ERROR]: ">> \o text

Unspecified == <<"An unspecified error occurred from Poe bot.">>

\* The fold state of AggregatePoeEventsToOpenAIResponse.
Acc(content, toolCalls, finish) ==
    [content |-> content, toolCalls |-> toolCalls, finish |-> finish]

\* case "json" of the aggregation loop
AggregateJson(data, acc) ==
    IF ~data.ok THEN acc
    ELSE IF data.choices # "absent"
    THEN IF data.choices = "delta"
         THEN LET m == mapPoeToolCallDataToOpenAI(data.deltaTC)
                  tcs == IF data.hasDeltaTC /\ ~m.err THEN m.calls ELSE <<>>
              IN  Acc(acc.content \o data.deltaContent, acc.toolCalls \o tcs, acc.finish)
         ELSE acc
    ELSE IF data.hasTopTC
    THEN LET m == mapPoeToolCallDataToOpenAI(data.topTC)
         IN  Acc(acc.content, acc.toolCalls \o (IF m.err THEN <<>> ELSE m.calls), acc.finish)
    ELSE Acc(acc.content \o Stringify(data), acc.toolCalls, acc.finish)

\* Mutant of AggregateError: the error only forces the finish reason.
AggregateErrorNoMarker(data, acc) ==
    Acc(acc.content, acc.toolCalls, "stop")

\* case "error" of the aggregation loop
AggregateError(data, acc) ==
    Acc(acc.content \o ErrorMarker(IF data.ok /\ data.hasText THEN data.text
                                                             ELSE Unspecified),
        acc.toolCalls, "stop")

\* case "text" of the aggregation loop
AggregateText(data, acc) ==
    IF data.ok
    THEN Acc(acc.content \o data.text, acc.toolCalls, acc.finish)
    ELSE acc

\* Mutant of AggregateReplace: the buffer is not reset.
AggregateReplaceAppends(data, acc) ==
    IF data.ok
    THEN Acc(acc.content \o data.text, acc.toolCalls, acc.finish)
    ELSE acc

\* case "replace_response" of the aggregation loop
AggregateReplace(data, acc) ==
    IF data.ok
    THEN Acc(data.text, acc.toolCalls, acc.finish)
    ELSE acc

\* Mutant of AggregateDone: the tool calls are not consulted.
AggregateDoneAlwaysStop(acc) ==
    Acc(acc.content, acc.toolCalls, "stop")

\* case "done" of the aggregation loop
AggregateDone(acc) ==
    Acc(acc.content, acc.toolCalls,
        IF Len(acc.toolCalls) > 0 THEN "tool_calls" ELSE "stop")

\* One iteration of the aggregation loop.
AggregateStep(poeEvent, acc) ==
    CASE poeEvent.Event = "text" -> AggregateText(poeEvent.Data, acc)
      [] poeEvent.Event = "replace_response" -> AggregateReplace(poeEvent.Data, acc)
      [] poeEvent.Event = "json" -> AggregateJson(poeEvent.Data, acc)
      [] poeEvent.Event = "done" -> AggregateDone(acc)
      [] poeEvent.Event = "error" -> AggregateError(poeEvent.Data, acc)
      [] OTHER -> acc

RECURSIVE AggregateLoop(_, _)
AggregateLoop(poeEvents, acc) ==
    IF poeEvents = <<>> THEN acc
    ELSE AggregateLoop(Tail(poeEvents), AggregateStep(Head(poeEvents), acc))

\* Mutant of ContentIsNil: content is nil whenever there are tool calls.
ContentIsNilWithToolCalls(contentStr, toolCalls) ==
    Len(toolCalls) > 0

\* Lines 666-672: contentPtr stays nil unless the condition holds.
ContentIsNil(contentStr, toolCalls) ==
    ~(contentStr # <<>> \/ (Len(toolCalls) = 0 /\ contentStr = <<>>))

\* What the locals of a call hold when no call was made before.
NoCallYet == Acc(<<>>, <<>>, "stop")

\* Mutant of LocalState: the buffer, the tool calls and the finish reason
\* outlive the call, as package-level variables would.
LocalStateKept(left) == left

\* Lines 548-552: responseContent, openAIToolCalls and finalFinishReason are
\* locals, declared anew in every call whatever an earlier call left in its
\* own; the function reads no clock and no random source.
LocalState(left) == Acc(<<>>, <<>>, "stop")

\* The locals when the loop of a call ends.
FinalState(poeEvents, left) == AggregateLoop(poeEvents, LocalState(left))

\* Lines 666-698: the response built from the locals; contentNull is a nil
\* content pointer.
ResponseOf(acc) ==
    [role |-> "assistant",
     contentNull |-> ContentIsNil(acc.content, acc.toolCalls),
     content |-> acc.content,
     toolCalls |-> acc.toolCalls,
     finish |-> acc.finish]

AggregatePoeEventsToOpenAIResponse(poeEvents) ==
    ResponseOf(FinalState(poeEvents, NoCallYet))

\* --------------------------------------------------------------- SSE parser
\* The read loop of performStreamQuery.  A byte string is a sequence of
\* tokens: the prefixes "event:" and "data:", the white space " " and "\n",
\* and words.

IsSpace(t) == t \in {" ", "\n"}

\* strings.TrimSpace
RECURSIVE TrimLeft(_)
TrimLeft(str) ==
    IF str # <<>> /\ IsSpace(Head(str)) THEN TrimLeft(Tail(str)) ELSE str

RECURSIVE TrimRight(_)
TrimRight(str) ==
    IF str # <<>> /\ IsSpace(str[Len(str)])
    THEN TrimRight(SubSeq(str, 1, Len(str) - 1))
    ELSE str

TrimSpace(str) == TrimRight(TrimLeft(str))

\* strings.HasPrefix and strings.TrimPrefix, for a one-token prefix.
HasPrefix(str, prefix) == str # <<>> /\ Head(str) = prefix

TrimPrefix(str, prefix) == IF HasPrefix(str, prefix) THEN Tail(str) ELSE str

\* The position of the first "\n" of a byte string, 0 when it has none.
IndexNewline(buf) ==
    IF \E k \in 1..Len(buf) : buf[k] = "\n"
    THEN CHOOSE k \in 1..Len(buf) :
            buf[k] = "\n" /\ \A j \in 1..(k - 1) : buf[j] # "\n"
    ELSE 0

\* What a call of ReadBytes does with the reader's buffer.
ReadResult(status, line, rest) == [status |-> status, line |-> line, rest |-> rest]

\* Mutant of ReadBytes: whatever one read of the body returned is handed out
\* as a line.
ReadBytesUnbuffered(buf, exhausted) ==
    IF IndexNewline(buf) > 0
    THEN ReadResult("line", SubSeq(buf, 1, IndexNewline(buf)),
                    SubSeq(buf, IndexNewline(buf) + 1, Len(buf)))
    ELSE IF buf # <<>> THEN ReadResult("line", buf, <<>>)
    ELSE IF exhausted THEN ReadResult("eof", buf, <<>>)
    ELSE ReadResult("fill", <<>>, buf)

\* reader.ReadBytes('\n'): the bytes up to and including the first newline;
\* without one, more of the body is read, and at the end of the body what is
\* left comes back together with io.EOF.
ReadBytes(buf, exhausted) ==
    IF IndexNewline(buf) > 0
    THEN ReadResult("line", SubSeq(buf, 1, IndexNewline(buf)),
                    SubSeq(buf, IndexNewline(buf) + 1, Len(buf)))
    ELSE IF exhausted THEN ReadResult("eof", buf, <<>>)
    ELSE ReadResult("fill", <<>>, buf)

\* The loop state: currentEvent.Event, accumulatedData and the events
\* dispatched so far.
Parsing(event, data, out) == [event |-> event, data |-> data, out |-> out]

\* currentEvent with Data set at emission.
Finalized(st) == PoeSSEEvent(st.event, TrimSpace(st.data))

\* Lines 326-340: a line that starts with "event:".
EventLine(line, st) ==
    LET label == TrimSpace(TrimPrefix(line, "event:"))
    IN  IF st.data # <<>> \/ st.event # <<>>
        THEN Parsing(label, <<>>,
                     IF st.event # <<>> THEN Append(st.out, Finalized(st)) ELSE st.out)
        ELSE Parsing(label, st.data, st.out)

\* Lines 341-344: a line that starts with "data:".
DataLine(line, st) ==
    Parsing(st.event, st.data \o TrimPrefix(line, "data:"), st.out)

\* Mutant of BlankLine: the label is not reset after the emission.
BlankLineKeepsLabel(st) ==
    IF st.event # <<>> \/ st.data # <<>>
    THEN Parsing(st.event, <<>>, Append(st.out, Finalized(st)))
    ELSE st

\* Lines 345-354: a line that is empty once trimmed.
BlankLine(st) ==
    IF st.event # <<>> \/ st.data # <<>>
    THEN Parsing(<<>>, <<>>, Append(st.out, Finalized(st)))
    ELSE st

\* Lines 323-355: the loop body for one line.
ProcessLine(line, st) ==
    IF HasPrefix(line, "event:") THEN EventLine(line, st)
    ELSE IF HasPrefix(line, "data:") THEN DataLine(line, st)
    ELSE IF TrimSpace(line) = <<>> THEN BlankLine(st)
    ELSE st

\* Mutant of EndOfStream: an event is dispatched at every end of input.
EndOfStreamAlwaysEmits(st) ==
    Parsing(st.event, st.data, Append(st.out, Finalized(st)))

\* Lines 295-307: io.EOF; the bytes that came back with it are not looked at.
EndOfStream(st) ==
    IF st.data # <<>> \/ st.event # <<>>
    THEN Parsing(st.event, st.data, Append(st.out, Finalized(st)))
    ELSE st

\* The lines a response body may hold.
Lines ==
    { <<"event:", " ", "text", "\n">>, <<"event:", "done", "\n">>,
      <<"data:", " ", "foo", "\n">>, <<"data:", " ", "bar", "\n">>,
      <<"\n">>, <<" ", "\n">>, <<":", "ping", "\n">> }

\* What may follow the last newline of a body.
Fragments == { <<>>, <<"data:", " ", "foo">>, <<"event:", "done">> }

RECURSIVE Flatten(_)
Flatten(ls) == IF ls = <<>> THEN <<>> ELSE Head(ls) \o Flatten(Tail(ls))

\* The response bodies.
Bodies ==
    { Flatten(ls) \o f : ls \in UNION { [1..n -> Lines] : n \in 0..MaxLines },
                        f \in Fragments }

\* ----------------------------------------------------------------- log sink
\* RingBufferLogWriter: a container/ring of w.size slots, numbered from 0;
\* w.buffer is the slot written next.

\* A slot of the ring: Value is nil until it is written.
Slot(isNil, value) == [isNil |-> isNil, value |-> value]

EmptySlot == Slot(TRUE, "")

\* ring.New(n)
RingNew(n) == [k \in 0..(n - 1) |-> EmptySlot]

\* r.Next()
RingNextSlot(pos, size) == (pos + 1) % size

\* Mutant of DoStart: the iteration starts at r.Next().
DoStartAtNext(pos, size) == (pos + 1) % size

\* ring.Do calls f on r first, then on the elements that follow it.
DoStart(pos, size) == pos

\* ring.Do with the callback of GetLogs, from slot k for count more slots:
\* the values that are not nil, in the order visited.
RECURSIVE DoCollect(_, _, _, _)
DoCollect(ring, size, k, count) ==
    IF count = 0 THEN <<>>
    ELSE (IF ring[k].isNil THEN <<>> ELSE <<ring[k].value>>)
         \o DoCollect(ring, size, RingNextSlot(k, size), count - 1)

\* GetLogs
GetLogs(ring, size, pos) == DoCollect(ring, size, DoStart(pos, size), size)

\* NewRingBufferLogWriterWithSize: the capacity for a requested size.
Capacity(size) == IF size <= 0 THEN defaultBufferSize ELSE size

\* The entries that may be written.
LogEntries == {"a", "b"}

\* ------------------------------------------------------------------- state

VARIABLES
    mode,        \* openAIReq.Stream: "stream" or "nonstream"
    cancelled,   \* ctx.Done() is closed
    pPc,         \* where the StreamQuery goroutine stands
    i,           \* its loop index
    attempts,    \* calls of performStreamQuery so far
    lastErr,     \* lastErr of StreamQuery
    cur,         \* the event dispatchPoeEvent is sending
    atEOF,       \* that event is the pending one dispatched at end of input
    produced,    \* events parsed so far (bounded by MaxEvents)
    succeeded,   \* performStreamQuery returned nil
    errBuf,      \* the buffer of errChan (capacity 1)
    errClosed,   \* errChan is closed
    evClosed,    \* eventChan is closed
    sent,        \* every value sent on errChan, in order
    framesAtErr, \* frames written when the error was sent
    hPc,         \* where the handler stands
    received,    \* events the handler received, each with its attempt
    frames,      \* frames the handler wrote to the response
    isFirstContentChunkEvent,
    hasMadeToolCallEvent,
    response,    \* the non-streaming answer
    writeErr,    \* a chunk write failed
    tIn,         \* transducer specification: the events fed so far
    tOut,        \* transducer specification: the result of each call
    tFirst,      \* transducer specification: *isFirstContentChunk
    tTool,       \* transducer specification: *hasMadeToolCall
    aIn,         \* aggregator specification: the events collected
    aDone,       \* aggregator specification: the collection was aggregated
    aResp,       \* aggregator specification: the aggregated response
    aLeft,       \* aggregator specification: the locals at the last return
    aReplayed,   \* aggregator specification: the call was made a second time
    aReplay,     \* aggregator specification: the response of the second call
    sPc,         \* parser specification: "idle", "reading", "eof" or "failed"
    respBody,    \* parser specification: the bytes of resp.Body
    bodyRead,    \* parser specification: how many of them were read
    readerBuf,   \* parser specification: read by the reader, not yet returned
    fragmented,  \* parser specification: some read ended inside a line
    currentEvent,     \* parser specification: currentEvent.Event
    accumulatedData,  \* parser specification
    dispatched,  \* parser specification: the events dispatched, in order
    wSize,       \* log sink specification: w.size, 0 before construction
    wRing,       \* log sink specification: the slots of w.buffer
    wBuffer,     \* log sink specification: the slot w.buffer points at
    written,     \* log sink specification: every entry written, in order
    finalLogs,   \* log sink specification: what the last GetLogs returned
    snapshotAt   \* log sink specification: entries written before that call

pvars == <<pPc, i, attempts, lastErr, cur, atEOF, produced, succeeded>>
cvars == <<errBuf, errClosed, evClosed, sent, framesAtErr>>
hvars == <<hPc, received, frames, isFirstContentChunkEvent, hasMadeToolCallEvent,
           response, writeErr>>
tvars == <<tIn, tOut, tFirst, tTool>>
avars == <<aIn, aDone, aResp, aLeft, aReplayed, aReplay>>
\* The variables of the stand-alone specifications.
svars == <<sPc, respBody, bodyRead, readerBuf, fragmented, currentEvent, accumulatedData, dispatched>>
lvars == <<wSize, wRing, wBuffer, written, finalLogs, snapshotAt>>
fvars == <<tvars, avars, svars, lvars>>
vars == <<mode, cancelled, pvars, cvars, hvars, fvars>>

\* The error of one attempt: the attempt and why it failed.
Failure(att, cause) == [att |-> att, cause |-> cause]

NoErr == Failure(0, "nil")

\* ctx.Err()
CtxErr == Failure(0, "ctx.Err")

\* fmt.Errorf("...: %w", inner): a message kind wrapping an error.
Wrapped(kind, inner) == [kind |-> kind, inner |-> inner]

\* The answer of the non-streaming branch: status 0 is "none yet".
Response(status, body) == [status |-> status, body |-> body]

NoBody == AggregatePoeEventsToOpenAIResponse(<<>>)

\* The events an attempt of a session may parse.
SessionEvents ==
    { PoeSSEEvent("text", TextOf(<<"Hi">>)), PoeSSEEvent("text", BadJSON),
      PoeSSEEvent("json", DeltaOf(TRUE, <<TC1>>, <<>>)),
      PoeSSEEvent("error", TextOf(<<"boom">>)), PoeSSEEvent("error", BadJSON),
      PoeSSEEvent("replace_response", TextOf(<<"Re">>)),
      PoeSSEEvent("done", EmptyObj), PoeSSEEvent("meta", EmptyObj) }

Idle == PoeSSEEvent("", EmptyObj)

allPoeEvents == [k \in 1..Len(received) |-> received[k].ev]

\* ----------------------------------------------------------------- handler
\* Each select case of HandleChatCompletions, as the effect on the handler's
\* variables.  A case runs either when the handler evaluates its select and
\* finds it ready, or when the handler is blocked in the select and another
\* goroutine's channel operation (or the cancellation) wakes it.

ChunkFrame(choice, src) == [kind |-> "chunk", chunk |-> choice, src |-> src]

DoneFrame == [kind |-> "done", chunk |-> NoChoice, src |-> 0]

\* Lines 268-294: aggregate what was collected and answer 200.
Aggregated == Response(200, AggregatePoeEventsToOpenAIResponse(allPoeEvents))

\* case <-ctx.Done()
HandlerCtxDone ==
    /\ hPc' = "done"
    /\ response' = IF mode = "nonstream" THEN Response(504, NoBody) ELSE response
    /\ UNCHANGED <<received, frames, isFirstContentChunkEvent, hasMadeToolCallEvent,
                   writeErr>>

\* case err, ok := <-errChan
HandlerErr(ok) ==
    /\ hPc' = "done"
    /\ response' = IF mode = "stream" THEN response
                   ELSE IF ok THEN Response(500, NoBody) ELSE Aggregated
    /\ UNCHANGED <<received, frames, isFirstContentChunkEvent, hasMadeToolCallEvent,
                   writeErr>>

\* case poeEvent, ok := <-eventChan with !ok
HandlerEvClosed ==
    /\ hPc' = "done"
    /\ frames' = IF mode = "stream" THEN Append(frames, DoneFrame) ELSE frames
    /\ response' = IF mode = "stream" THEN response ELSE Aggregated
    /\ UNCHANGED <<received, isFirstContentChunkEvent, hasMadeToolCallEvent, writeErr>>

\* Mutant of TerminatesStream: any transducer error ends the stream.
TerminatesStreamOnAnyError(err) == err # ""

\* Whether the handler leaves its loop after a transducer error.
TerminatesStream(err) == err = "terminate"

\* Mutant of StreamEvent: the handler stays in its loop after the done event.
StreamEventGoesOnAfterDone(poeEvent, wok) ==
    LET r == TransformPoeEventToOpenAIChatCompletionChunk(
                 poeEvent, isFirstContentChunkEvent, hasMadeToolCallEvent)
        chunked == IF r.some
                   THEN Append(frames, ChunkFrame(r.chunk, Len(received) + 1))
                   ELSE frames
    IN  /\ isFirstContentChunkEvent' = r.first
        /\ hasMadeToolCallEvent' = r.tool
        /\ response' = response
        /\ IF r.err # ""
           THEN /\ hPc' = IF TerminatesStream(r.err) THEN "done" ELSE "select"
                /\ UNCHANGED <<frames, writeErr>>
           ELSE IF r.some /\ ~wok
           THEN /\ hPc' = "done"
                /\ writeErr' = TRUE
                /\ frames' = frames
           ELSE /\ writeErr' = writeErr
                /\ hPc' = "select"
                /\ IF poeEvent.Event = "done"
                   THEN frames' = Append(chunked, DoneFrame)
                   ELSE frames' = chunked

\* Lines 182-232: one received event in streaming mode; wok is whether the
\* write of the chunk succeeds.
StreamEvent(poeEvent, wok) ==
    LET r == TransformPoeEventToOpenAIChatCompletionChunk(
                 poeEvent, isFirstContentChunkEvent, hasMadeToolCallEvent)
        chunked == IF r.some
                   THEN Append(frames, ChunkFrame(r.chunk, Len(received) + 1))
                   ELSE frames
    IN  /\ isFirstContentChunkEvent' = r.first
        /\ hasMadeToolCallEvent' = r.tool
        /\ response' = response
        /\ IF r.err # ""
           THEN /\ hPc' = IF TerminatesStream(r.err) THEN "done" ELSE "select"
                /\ UNCHANGED <<frames, writeErr>>
           ELSE IF r.some /\ ~wok
           THEN /\ hPc' = "done"
                /\ writeErr' = TRUE
                /\ frames' = frames
           ELSE /\ writeErr' = writeErr
                /\ IF poeEvent.Event = "done"
                   THEN hPc' = "done" /\ frames' = Append(chunked, DoneFrame)
                   ELSE hPc' = "select" /\ frames' = chunked

\* case poeEvent, ok := <-eventChan with ok
HandlerEvent(poeEvent, att, wok) ==
    /\ received' = Append(received, [ev |-> poeEvent, att |-> att])
    /\ IF mode = "stream"
       THEN StreamEvent(poeEvent, wok)
       ELSE /\ hPc' = "select"
            /\ UNCHANGED <<frames, isFirstContentChunkEvent, hasMadeToolCallEvent,
                           response, writeErr>>

\* ---------------------------------------------------------------- producer
\* The goroutine of StreamQuery.  pPc:
\*   "iter"        at the head of the retry loop
\*   "sleep"       in time.Sleep before a retry
\*   "perform"     in performStreamQuery, before the HTTP exchange
\*   "read"        in the read loop of performStreamQuery
\*   "send"        at the select of dispatchPoeEvent
\*   "sendParked"  blocked in that select
\*   "check"       after a failed attempt, at the cancellation check
\*   "closeErr"    returning: deferred close(errChan)
\*   "closeEv"     returning: deferred close(eventChan)
\*   "done"        returned

\* Mutant of LoopContinues: one iteration too many.
LoopContinuesOffByOne(n) == n <= maxRetries + 1

\* The loop condition of StreamQuery.
LoopContinues(n) == n < maxRetries + 1

\* Mutant of DispatchReady: a plain send, without the ctx.Done() case.
DispatchReadyNoCtx(receiverParked, ctxDone) ==
    IF receiverParked THEN {"send"} ELSE {}

\* Mutant of DispatchReady: a buffered eventChan, the send needs no receiver.
DispatchReadyBuffered(receiverParked, ctxDone) ==
    {"send"} \cup (IF ctxDone THEN {"ctx"} ELSE {})

\* The cases of the select of dispatchPoeEvent that can proceed: the send
\* when the receiver is blocked in its select, ctx.Done() when it is closed.
DispatchReady(receiverParked, ctxDone) ==
    (IF receiverParked THEN {"send"} ELSE {}) \cup (IF ctxDone THEN {"ctx"} ELSE {})

\* The cases of the handler's select that can proceed.
HandlerReady(ctxDone, errPending, errIsClosed, evIsClosed, senderParked) ==
    (IF ctxDone THEN {"ctx"} ELSE {})
    \cup (IF errPending \/ errIsClosed THEN {"err"} ELSE {})
    \cup (IF evIsClosed THEN {"closed"} ELSE {})
    \cup (IF senderParked THEN {"recv"} ELSE {})

\* make(chan error, 1): the capacity of errChan.
errChanCap == 1

\* Mutant of ErrSend: errChan is unbuffered, the send needs the handler
\* blocked in its select.
ErrSendUnbuffered(v) ==
    /\ sent' = Append(sent, v)
    /\ framesAtErr' = Len(frames)
    /\ UNCHANGED <<errClosed, evClosed>>
    /\ hPc = "parked"
    /\ HandlerErr(TRUE)
    /\ errBuf' = errBuf

\* errChan <- v: handed to the handler when it is blocked in its select,
\* buffered otherwise (the send blocks when the buffer is full).
ErrSend(v) ==
    /\ sent' = Append(sent, v)
    /\ framesAtErr' = Len(frames)
    /\ UNCHANGED <<errClosed, evClosed>>
    /\ IF hPc = "parked"
       THEN HandlerErr(TRUE) /\ errBuf' = errBuf
       ELSE Len(errBuf) < errChanCap /\ errBuf' = Append(errBuf, v) /\ UNCHANGED hvars

\* The error StreamQuery reports when the loop ends.
FinalError(err) == Wrapped("failed after retries", err)

\* http.StatusOK
StatusOK == 200

\* The status codes a response may carry.
Statuses == {200, 204, 500}

\* Lines 256-284: the cause of the error returned for a status other than 200;
\* the message carries the status code.
StatusError(code) == "status " \o ToString(code)

\* Mutant of ReadError: a read failure is never reported as a cancellation.
ReadErrorIgnoresCtx(ctxDone) == "read"

\* Lines 308-320: the cause of the error returned for a read failure other
\* than io.EOF.
ReadError(ctxDone) == IF ctxDone THEN "ctx" ELSE "read"

\* Lines 75-84 and 111: the loop head.
IterStart ==
    /\ pPc = "iter"
    /\ UNCHANGED <<mode, cancelled, fvars, i, lastErr, cur, atEOF, produced, succeeded>>
    /\ IF LoopContinues(i)
       THEN /\ IF i > 0
               THEN pPc' = "sleep" /\ attempts' = attempts
               ELSE pPc' = "perform" /\ attempts' = attempts + 1
            /\ UNCHANGED <<cvars, hvars>>
       ELSE /\ pPc' = "closeErr"
            /\ attempts' = attempts
            /\ ErrSend(FinalError(lastErr))

\* Line 83 returns and line 87 calls performStreamQuery.
SleepDone ==
    /\ pPc = "sleep"
    /\ pPc' = "perform"
    /\ attempts' = attempts + 1
    /\ UNCHANGED <<mode, cancelled, fvars, cvars, hvars, i, lastErr, cur, atEOF,
                   produced, succeeded>>

\* Lines 191-284: the HTTP exchange fails, answers a status other than 200,
\* or answers 200.  With a cancelled context it fails.
Connect ==
    /\ pPc = "perform"
    /\ UNCHANGED <<mode, cancelled, fvars, cvars, hvars, i, attempts, cur, atEOF,
                   produced, succeeded>>
    /\ \/ /\ pPc' = "check"
          /\ lastErr' = Failure(attempts, IF cancelled THEN "ctx" ELSE "transport")
       \/ /\ ~cancelled
          /\ \E code \in Statuses :
                IF code # StatusOK
                THEN pPc' = "check" /\ lastErr' = Failure(attempts, StatusError(code))
                ELSE pPc' = "read" /\ lastErr' = lastErr

\* Lines 290-356: the read loop up to its next exit: an event to dispatch
\* (the pending one at end of input when eof), end of input with nothing
\* pending, or a read error.
Read ==
    /\ pPc = "read"
    /\ UNCHANGED <<mode, cancelled, fvars, cvars, hvars, i, attempts>>
    /\ \/ /\ produced < MaxEvents
          /\ \E e \in SessionEvents, eof \in BOOLEAN :
                cur' = e /\ atEOF' = eof
          /\ produced' = produced + 1
          /\ pPc' = "send"
          /\ UNCHANGED <<lastErr, succeeded>>
       \/ /\ pPc' = "closeErr"
          /\ succeeded' = TRUE
          /\ UNCHANGED <<lastErr, cur, atEOF, produced>>
       \/ /\ pPc' = "check"
          /\ lastErr' = Failure(attempts, ReadError(cancelled))
          /\ UNCHANGED <<cur, atEOF, produced, succeeded>>

\* Mutant of AfterSend: an error event that was sent fails the attempt.
AfterSendErrorFails ==
    /\ pPc' = IF cur.Event = "error" THEN "check"
              ELSE IF atEOF THEN "closeErr" ELSE "read"
    /\ succeeded' = (succeeded \/ (atEOF /\ cur.Event # "error"))
    /\ lastErr' = IF cur.Event = "error" THEN Failure(attempts, "poe error") ELSE lastErr
    /\ cur' = Idle
    /\ atEOF' = FALSE
    /\ UNCHANGED <<i, attempts, produced>>

\* dispatchPoeEvent returned nil: back to the read loop with currentEvent
\* reset, or return nil when the event was the one pending at end of input.
AfterSend ==
    /\ pPc' = IF atEOF THEN "closeErr" ELSE "read"
    /\ succeeded' = (succeeded \/ atEOF)
    /\ cur' = Idle
    /\ atEOF' = FALSE
    /\ UNCHANGED <<i, attempts, lastErr, produced>>

\* dispatchPoeEvent returned the context error.
SendCancelled ==
    /\ pPc' = "check"
    /\ lastErr' = Failure(attempts, "ctx")
    /\ UNCHANGED <<i, attempts, cur, atEOF, produced, succeeded>>

\* Lines 160-176: the select of dispatchPoeEvent is evaluated.
Send ==
    /\ pPc = "send"
    /\ UNCHANGED <<mode, cancelled, fvars, cvars>>
    /\ LET ready == DispatchReady(hPc = "parked", cancelled)
       IN  IF ready = {}
           THEN /\ pPc' = "sendParked"
                /\ UNCHANGED <<i, attempts, lastErr, cur, atEOF, produced, succeeded,
                               hvars>>
           ELSE \E c \in ready :
                   IF c = "send"
                   THEN /\ AfterSend
                        /\ \E wok \in BOOLEAN : HandlerEvent(cur, attempts, wok)
                   ELSE SendCancelled /\ UNCHANGED hvars

\* Mutant of Check: the loop goes on without looking at the context.
CheckIgnoresCtx ==
    /\ pPc = "check"
    /\ UNCHANGED <<mode, cancelled, fvars, attempts, lastErr, cur, atEOF, produced,
                   succeeded, cvars, hvars>>
    /\ pPc' = "iter"
    /\ i' = i + 1

\* Lines 100-106: the cancellation check after a failed attempt.
Check ==
    /\ pPc = "check"
    /\ UNCHANGED <<mode, cancelled, fvars, attempts, lastErr, cur, atEOF, produced,
                   succeeded>>
    /\ IF cancelled
       THEN /\ pPc' = "closeErr"
            /\ i' = i
            /\ ErrSend(Wrapped("context cancelled during retry", CtxErr))
       ELSE /\ pPc' = "iter"
            /\ i' = i + 1
            /\ UNCHANGED <<cvars, hvars>>

\* Mutant of CloseErr: the deferred calls are swapped, eventChan is closed
\* first.
CloseErrClosesEventChan ==
    /\ pPc = "closeErr"
    /\ pPc' = "closeEv"
    /\ evClosed' = TRUE
    /\ UNCHANGED <<mode, cancelled, fvars, i, attempts, lastErr, cur, atEOF, produced,
                   succeeded, errBuf, errClosed, sent, framesAtErr>>
    /\ IF hPc = "parked" THEN HandlerEvClosed ELSE UNCHANGED hvars

\* Line 72, deferred: close(errChan) runs first.
CloseErr ==
    /\ pPc = "closeErr"
    /\ pPc' = "closeEv"
    /\ errClosed' = TRUE
    /\ UNCHANGED <<mode, cancelled, fvars, i, attempts, lastErr, cur, atEOF, produced,
                   succeeded, errBuf, evClosed, sent, framesAtErr>>
    /\ IF hPc = "parked" THEN HandlerErr(FALSE) ELSE UNCHANGED hvars

\* Line 71, deferred: close(eventChan) runs last.
CloseEv ==
    /\ pPc = "closeEv"
    /\ pPc' = "done"
    /\ evClosed' = TRUE
    /\ UNCHANGED <<mode, cancelled, fvars, i, attempts, lastErr, cur, atEOF, produced,
                   succeeded, errBuf, errClosed, sent, framesAtErr>>
    /\ IF hPc = "parked" THEN HandlerEvClosed ELSE UNCHANGED hvars

\* The handler evaluates its select (chat.go lines 139-160 and 241-258):
\* one of the cases that can proceed runs, or the handler blocks.
HandlerSelect ==
    /\ hPc = "select"
    /\ UNCHANGED <<mode, cancelled, fvars, errClosed, evClosed, sent, framesAtErr>>
    /\ LET ready == HandlerReady(cancelled, errBuf # <<>>, errClosed, evClosed,
                                 pPc = "sendParked")
       IN  IF ready = {}
           THEN /\ hPc' = "parked"
                /\ UNCHANGED <<pvars, errBuf, received, frames,
                               isFirstContentChunkEvent, hasMadeToolCallEvent,
                               response, writeErr>>
           ELSE \E c \in ready :
                   CASE c = "ctx" -> HandlerCtxDone /\ UNCHANGED <<pvars, errBuf>>
                     [] c = "err" ->
                          /\ HandlerErr(errBuf # <<>>)
                          /\ errBuf' = <<>>
                          /\ UNCHANGED pvars
                     [] c = "closed" -> HandlerEvClosed /\ UNCHANGED <<pvars, errBuf>>
                     [] c = "recv" ->
                          /\ AfterSend
                          /\ errBuf' = errBuf
                          /\ \E wok \in BOOLEAN : HandlerEvent(cur, attempts, wok)

\* ctx.Done() is closed: the client went away or the deadline passed.  Every
\* goroutine blocked in a select with a ctx.Done() case is woken on it.
Cancel ==
    /\ ~cancelled
    /\ cancelled' = TRUE
    /\ UNCHANGED <<mode, fvars, cvars>>
    /\ IF hPc = "parked" THEN HandlerCtxDone ELSE UNCHANGED hvars
    /\ IF pPc = "sendParked" /\ "ctx" \in DispatchReady(FALSE, TRUE)
       THEN SendCancelled
       ELSE UNCHANGED pvars

SessionInit ==
    /\ mode \in {"stream", "nonstream"}
    /\ cancelled = FALSE
    /\ pPc = "iter" /\ i = 0 /\ attempts = 0 /\ lastErr = NoErr
    /\ cur = Idle /\ atEOF = FALSE /\ produced = 0 /\ succeeded = FALSE
    /\ errBuf = <<>> /\ errClosed = FALSE /\ evClosed = FALSE
    /\ sent = <<>> /\ framesAtErr = -1
    /\ hPc = "select" /\ received = <<>> /\ frames = <<>>
    /\ isFirstContentChunkEvent = TRUE /\ hasMadeToolCallEvent = FALSE
    /\ response = Response(0, NoBody) /\ writeErr = FALSE

\* ------------------------------------------------- transducer specification
\* The transducer alone: any sequence of events fed in order to
\* TransformPoeEventToOpenAIChatCompletionChunk, the flags starting fresh.

TransducerInit ==
    /\ tIn = <<>> /\ tOut = <<>> /\ tFirst = TRUE /\ tTool = FALSE

Feed ==
    /\ Len(tIn) < MaxFeed
    /\ \E e \in PoeEvents :
          LET r == TransformPoeEventToOpenAIChatCompletionChunk(e, tFirst, tTool)
          IN  /\ tIn' = Append(tIn, e)
              /\ tOut' = Append(tOut, r)
              /\ tFirst' = r.first
              /\ tTool' = r.tool
    /\ UNCHANGED <<mode, cancelled, pvars, cvars, hvars, avars, svars, lvars>>

\* ------------------------------------------------- aggregator specification
\* The aggregator alone, as the non-streaming branch uses it: events are
\* collected in order, then AggregatePoeEventsToOpenAIResponse is called once
\* on the collection.

\* The events that may be collected.
AggregatedEvents ==
    PoeEvents \cup { PoeSSEEvent("json", TopOf(<<TC1>>)),
                     PoeSSEEvent("json", BothOf(<<TC1>>, <<TC2>>)) }

AggregatorInit ==
    /\ aIn = <<>> /\ aDone = FALSE /\ aResp = NoBody
    /\ aLeft = NoCallYet /\ aReplayed = FALSE /\ aReplay = NoBody

\* chat.go line 264: allPoeEvents = append(allPoeEvents, poeEvent)
Collect ==
    /\ ~aDone
    /\ Len(aIn) < MaxAgg
    /\ \E e \in AggregatedEvents : aIn' = Append(aIn, e)
    /\ UNCHANGED <<aDone, aResp, aLeft, aReplayed, aReplay>>
    /\ UNCHANGED <<mode, cancelled, pvars, cvars, hvars, tvars, svars, lvars>>

\* chat.go lines 268-273: the call of AggregatePoeEventsToOpenAIResponse.
Aggregate ==
    /\ ~aDone
    /\ aDone' = TRUE
    /\ aResp' = ResponseOf(FinalState(aIn, aLeft))
    /\ aLeft' = FinalState(aIn, aLeft)
    /\ UNCHANGED <<aIn, aReplayed, aReplay>>
    /\ UNCHANGED <<mode, cancelled, pvars, cvars, hvars, tvars, svars, lvars>>

\* AggregatePoeEventsToOpenAIResponse is applied once more to the same
\* events, with the same model id, completion id and timestamp.
Replay ==
    /\ aDone /\ ~aReplayed
    /\ aReplayed' = TRUE
    /\ aReplay' = ResponseOf(FinalState(aIn, aLeft))
    /\ aLeft' = FinalState(aIn, aLeft)
    /\ UNCHANGED <<aIn, aDone, aResp>>
    /\ UNCHANGED <<mode, cancelled, pvars, cvars, hvars, tvars, svars, lvars>>

\* ----------------------------------------------------- parser specification
\* The read loop of performStreamQuery alone, on one response body that the
\* transport hands over in reads of any size; every event is dispatched at
\* once (the consumer is receiving, the context is not cancelled).

ParserInit ==
    /\ sPc = "idle" /\ respBody = <<>> /\ bodyRead = 0 /\ readerBuf = <<>>
    /\ fragmented = FALSE
    /\ currentEvent = <<>> /\ accumulatedData = <<>> /\ dispatched = <<>>

othervars == <<mode, cancelled, pvars, cvars, hvars, tvars, avars, lvars>>

\* Line 286: the response arrived with status 200 and some body.
Respond ==
    /\ sPc = "idle"
    /\ sPc' = "reading"
    /\ respBody' \in Bodies
    /\ UNCHANGED <<bodyRead, readerBuf, fragmented, currentEvent, accumulatedData,
                   dispatched>>
    /\ UNCHANGED othervars

\* ReadBytes finds no newline in what it holds and reads more of the body:
\* one Read of resp.Body returns any positive number of the bytes left.
Fill ==
    /\ sPc = "reading"
    /\ ReadBytes(readerBuf, bodyRead = Len(respBody)).status = "fill"
    /\ \E n \in 1..(Len(respBody) - bodyRead) :
          /\ readerBuf' = readerBuf \o SubSeq(respBody, bodyRead + 1, bodyRead + n)
          /\ bodyRead' = bodyRead + n
          /\ fragmented' = (fragmented \/ (bodyRead + n < Len(respBody)
                                            /\ respBody[bodyRead + n] # "\n"))
    /\ UNCHANGED <<sPc, respBody, currentEvent, accumulatedData, dispatched>>
    /\ UNCHANGED othervars

\* ReadBytes returns a line and the loop body runs on it.
ReadLine ==
    /\ sPc = "reading"
    /\ LET r == ReadBytes(readerBuf, bodyRead = Len(respBody))
           st == ProcessLine(r.line, Parsing(currentEvent, accumulatedData, dispatched))
       IN  /\ r.status = "line"
           /\ readerBuf' = r.rest
           /\ currentEvent' = st.event
           /\ accumulatedData' = st.data
           /\ dispatched' = st.out
    /\ UNCHANGED <<sPc, respBody, bodyRead, fragmented>>
    /\ UNCHANGED othervars

\* Mutant of EndOfInput: the bytes that come back with io.EOF are run through
\* the loop body as a last line.
EndOfInputInterpretsFragment ==
    /\ sPc = "reading"
    /\ LET r == ReadBytes(readerBuf, bodyRead = Len(respBody))
           st == EndOfStream(ProcessLine(r.line,
                                 Parsing(currentEvent, accumulatedData, dispatched)))
       IN  /\ r.status = "eof"
           /\ readerBuf' = r.rest
           /\ currentEvent' = st.event
           /\ accumulatedData' = st.data
           /\ dispatched' = st.out
    /\ sPc' = "eof"
    /\ UNCHANGED <<respBody, bodyRead, fragmented>>
    /\ UNCHANGED othervars

\* ReadBytes returns io.EOF: the pending event is dispatched and
\* performStreamQuery returns nil.
EndOfInput ==
    /\ sPc = "reading"
    /\ LET r == ReadBytes(readerBuf, bodyRead = Len(respBody))
           st == EndOfStream(Parsing(currentEvent, accumulatedData, dispatched))
       IN  /\ r.status = "eof"
           /\ readerBuf' = r.rest
           /\ currentEvent' = st.event
           /\ accumulatedData' = st.data
           /\ dispatched' = st.out
    /\ sPc' = "eof"
    /\ UNCHANGED <<respBody, bodyRead, fragmented>>
    /\ UNCHANGED othervars

\* Lines 308-320: a read of the body fails with another error;
\* performStreamQuery returns it and dispatches nothing more.
ReadFail ==
    /\ sPc = "reading"
    /\ ReadBytes(readerBuf, bodyRead = Len(respBody)).status \in {"fill", "eof"}
    /\ sPc' = "failed"
    /\ UNCHANGED <<respBody, bodyRead, readerBuf, fragmented, currentEvent,
                   accumulatedData, dispatched>>
    /\ UNCHANGED othervars

\* --------------------------------------------------- log sink specification
\* One RingBufferLogWriter: constructed, then written to and read in any
\* order.  Write and GetLogs hold w.mu for their whole body, so each is one
\* step.

LogInit ==
    /\ wSize = 0 /\ wRing = <<>> /\ wBuffer = 0
    /\ written = <<>> /\ finalLogs = <<>> /\ snapshotAt = -1

sessionvars == <<mode, cancelled, pvars, cvars, hvars, tvars, avars, svars>>

\* NewRingBufferLogWriterWithSize(size), NewRingBufferLogWriter for size 0.
NewRingBufferLogWriterWithSize ==
    /\ wSize = 0
    /\ \E size \in 0..MaxCap :
          /\ wSize' = Capacity(size)
          /\ wRing' = RingNew(Capacity(size))
    /\ UNCHANGED <<wBuffer, written, finalLogs, snapshotAt>>
    /\ UNCHANGED sessionvars

\* Write(p)
Write ==
    /\ wSize > 0
    /\ Len(written) < MaxWrites
    /\ \E entry \in LogEntries :
          /\ wRing' = [wRing EXCEPT ![wBuffer] = Slot(FALSE, entry)]
          /\ written' = Append(written, entry)
    /\ wBuffer' = RingNextSlot(wBuffer, wSize)
    /\ UNCHANGED <<wSize, finalLogs, snapshotAt>>
    /\ UNCHANGED sessionvars

\* GetLogs()
Snapshot ==
    /\ wSize > 0
    /\ finalLogs' = GetLogs(wRing, wSize, wBuffer)
    /\ snapshotAt' = Len(written)
    /\ UNCHANGED <<wSize, wRing, wBuffer, written>>
    /\ UNCHANGED sessionvars

\* ------------------------------------------------------------ specifications

Init == SessionInit /\ TransducerInit /\ AggregatorInit /\ ParserInit /\ LogInit

Producer == IterStart \/ SleepDone \/ Connect \/ Read \/ Send \/ Check \/ CloseErr \/ CloseEv

Next == Producer \/ HandlerSelect \/ Cancel

Spec == Init /\ [][Next]_vars

\* The Go scheduler runs every goroutine that can take a step; time.Sleep
\* returns and a read of the response body returns.
\* It is stated for the streaming branch of the handler.
StreamInit == Init /\ mode = "stream"

FairSpec == StreamInit /\ [][Next]_vars /\ WF_vars(Producer) /\ WF_vars(HandlerSelect)

TransducerSpecInit == Init /\ mode = "stream"

TransducerSpec == TransducerSpecInit /\ [][Feed]_vars

AggregatorSpecInit == Init /\ mode = "nonstream"

AggregatorNext == Collect \/ Aggregate \/ Replay

AggregatorSpec == AggregatorSpecInit /\ [][AggregatorNext]_vars

ParserSpecInit == Init /\ mode = "stream"

ParserNext == Respond \/ Fill \/ ReadLine \/ EndOfInput \/ ReadFail

ParserSpec == ParserSpecInit /\ [][ParserNext]_vars

LogSpecInit == Init /\ mode = "stream"

LogNext == NewRingBufferLogWriterWithSize \/ Write \/ Snapshot

LogSpec == LogSpecInit /\ [][LogNext]_vars

\* ------------------------------------------------------------------ claims

HasErrorEvent == \E k \in 1..Len(received) : received[k].ev.Event = "error"

HasChunk(fs) == \E k \in 1..Len(fs) : fs[k].kind = "chunk"

HasDone(fs) == \E k \in 1..Len(fs) : fs[k].kind = "done"

Returned == pPc \in {"closeErr", "closeEv", "done"}

\* C1 (as claimed): once an attempt has succeeded, every event the consumer
\* received comes from that attempt; no event of a failed attempt is visible.
C1_OnlySuccessfulAttemptVisible ==
    succeeded => \A k \in 1..Len(received) : received[k].att = attempts

\* The session ended in failure: every attempt failed and StreamQuery sent the
\* error that wraps the last one, while the request was never cancelled.
SessionFailed == sent # <<>> /\ sent[1].kind = "failed after retries" /\ ~cancelled

\* C2 (as claimed): in non-streaming mode, when the session ended in failure
\* (StreamQuery put its error on the error channel) the handler answers with an
\* error response and does not aggregate the partial event list it collected.
C2_FailureNeverAggregated ==
    (mode = "nonstream" /\ SessionFailed /\ received # <<>> /\ hPc = "done")
    => (response.status = 500 /\ response.body = NoBody)

\* C3 (as claimed): in streaming mode, when the session succeeded, the request
\* was not cancelled, no write failed and no error event ended the stream, the
\* handler has written the [DONE] frame as its last frame when it returns.
C3_DoneFrameOnSuccess ==
    (mode = "stream" /\ succeeded /\ ~cancelled /\ ~writeErr /\ ~HasErrorEvent
        /\ hPc = "done")
    => (frames # <<>> /\ frames[Len(frames)].kind = "done")

\* C4 (as claimed): in streaming mode, once every attempt has failed and the
\* failure was sent, the handler writes no further frame, so no [DONE] frame.
C4_NoFrameAfterFailure ==
    (mode = "stream" /\ SessionFailed /\ received # <<>>)
    => Len(frames) = framesAtErr

\* C5: when every attempt fails and the context is not cancelled, StreamQuery
\* makes exactly maxRetries+1 attempts and sends exactly one error, which wraps
\* the error of the last attempt; there is never a further attempt nor a second
\* error value.
C5_ThreeAttemptsOneError ==
    /\ attempts <= maxRetries + 1
    /\ Len(sent) <= 1
    /\ (Returned /\ ~succeeded /\ ~cancelled)
       => /\ attempts = maxRetries + 1
          /\ Len(sent) = 1
          /\ sent[1].kind = "failed after retries"
          /\ sent[1].inner = lastErr
          /\ lastErr.att = maxRetries + 1

C5_Witness ==
    /\ pPc = "done" /\ ~succeeded /\ ~cancelled
    /\ attempts = maxRetries + 1 /\ Len(sent) = 1 /\ sent[1].inner.att = attempts

C7_NoAttemptAfterCancelInBackoff ==
    [][(cancelled /\ pPc = "sleep") => attempts' = attempts]_vars

\* C8: in streaming mode an error event, decodable or not, produces no chunk,
\* is the last event the handler processes, and ends the stream without [DONE].
C8_ErrorEventEndsStream ==
    mode = "stream" =>
        \A k \in 1..Len(received) :
            received[k].ev.Event = "error"
            => /\ k = Len(received)
               /\ hPc = "done"
               /\ \A f \in 1..Len(frames) : frames[f].src # k
               /\ ~HasDone(frames)

\* An undecodable error event arrived after a chunk was written, with a
\* further event parsed behind it.
C8_Witness ==
    /\ mode = "stream" /\ HasChunk(frames)
    /\ Len(received) = 2
    /\ received[2].ev = PoeSSEEvent("error", BadJSON)
    /\ hPc = "done"

\* C9 (as claimed): a non-streaming request whose collected events contain an
\* error event receives an error response, not a successful completion.
C9_ErrorEventGivesErrorResponse ==
    (mode = "nonstream" /\ hPc = "done" /\ HasErrorEvent) => response.status # 200

LastError == CHOOSE k \in 1..Len(received) :
                /\ received[k].ev.Event = "error"
                /\ \A j \in (k + 1)..Len(received) : received[j].ev.Event # "error"

ReportedText(data) == IF data.ok /\ data.hasText THEN data.text ELSE Unspecified

\* C9 (amended): a non-streaming request whose collected events contain an
\* error event, and whose session ends without an error on the error channel
\* and without cancellation, receives a successful completion (status 200):
\* its content holds the inline marker followed by the reported text unless a
\* later replace_response discarded it, and its finish reason is "stop" unless
\* a done event follows.
C9_ErrorEventAggregatedInline ==
    (mode = "nonstream" /\ hPc = "done" /\ HasErrorEvent)
    => /\ (sent = <<>> /\ ~cancelled) => response.status = 200
       /\ response.status = 200 =>
            LET body == response.body
                later == { received[j].ev.Event : j \in (LastError + 1)..Len(received) }
            IN  /\ "replace_response" \notin later
                   => /\ ~body.contentNull
                      /\ LET m == ErrorMarker(ReportedText(received[LastError].ev.Data))
                         IN  \E c \in 1..Len(body.content) :
                                SubSeq(body.content, c, c + Len(m) - 1) = m
                /\ "done" \notin later => body.finish = "stop"

C9_Witness ==
    /\ mode = "nonstream" /\ hPc = "done" /\ response.status = 200
    /\ Len(received) = 2
    /\ received[1].ev.Event = "text" /\ received[2].ev = PoeSSEEvent("error", TextOf(<<"boom">>))

\* A json event in which the transducer observes tool-call entries: a
\* non-empty list of objects under choices[0].delta.tool_calls.
ObservedToolCall(e) ==
    /\ e.Event = "json" /\ e.Data.ok /\ e.Data.choices = "delta" /\ e.Data.hasDeltaTC
    /\ Len(e.Data.deltaTC) > 0
    /\ \A n \in 1..Len(e.Data.deltaTC) : e.Data.deltaTC[n].map

\* C10: for every sequence fed to the transducer from fresh flags, the chunk
\* of a done event carries finish reason "tool_calls" exactly when an earlier
\* event of the sequence held observed tool-call entries (equivalently, when an
\* earlier chunk carried tool calls), and "stop" otherwise.
C10_FinishReasonIffToolCall ==
    \A k \in 1..Len(tIn) :
        tIn[k].Event = "done"
        => /\ tOut[k].some
           /\ tOut[k].chunk.finish \in {"tool_calls", "stop"}
           /\ (tOut[k].chunk.finish = "tool_calls")
                 <=> (\E j \in 1..(k - 1) : ObservedToolCall(tIn[j]))
           /\ (tOut[k].chunk.finish = "tool_calls")
                 <=> (\E j \in 1..(k - 1) : tOut[j].some /\ tOut[j].chunk.toolCalls # <<>>)

C10_Witness ==
    /\ Len(tIn) = 3
    /\ ObservedToolCall(tIn[1]) /\ tIn[2].Event = "text" /\ tIn[3].Event = "done"
    /\ tOut[3].chunk.finish = "tool_calls"

\* The calls of the transducer, among the first k, that returned a chunk.
ChunksBefore(k) == { j \in 1..(k - 1) : tOut[j].some }

C12_NoEmptyChunk ==
    \A k \in 1..Len(tOut) :
        /\ tOut[k].some
           => \/ tOut[k].chunk.content # <<>>
              \/ tOut[k].chunk.toolCalls # <<>>
              \/ tOut[k].chunk.finish # ""
              \/ (tOut[k].chunk.role = "assistant" /\ ChunksBefore(k) = {})
        /\ tIn[k].Event \notin {"text", "replace_response", "json", "error", "done"}
           => (~tOut[k].some /\ tOut[k].err = "")

\* An empty text first gives a chunk that carries only the role; the same
\* event again gives an empty delta, which is suppressed; an unrecognised
\* event gives nothing.
C12_Witness ==
    /\ Len(tOut) = 3
    /\ tIn[1] = PoeSSEEvent("text", TextOf(<<>>)) /\ tOut[1].some
    /\ tOut[1].chunk = Choice("assistant", <<>>, <<>>, "")
    /\ tIn[2] = PoeSSEEvent("text", TextOf(<<>>)) /\ ~tOut[2].some
    /\ tIn[3].Event = "file" /\ ~tOut[3].some

\* The handler received n >= 1 text events with non-empty text and then done.
TextsThenDone ==
    /\ Len(received) >= 2
    /\ received[Len(received)].ev.Event = "done"
    /\ \A k \in 1..(Len(received) - 1) :
          /\ received[k].ev.Event = "text"
          /\ received[k].ev.Data.ok
          /\ received[k].ev.Data.text # <<>>

Entries(tcs) ==
    IF \A n \in 1..Len(tcs) : tcs[n].map
    THEN [n \in 1..Len(tcs) |-> [id |-> tcs[n].id, type |-> tcs[n].type,
                                  name |-> tcs[n].name, arguments |-> tcs[n].arguments]]
    ELSE <<>>

\* The tool calls a structured event gives to the aggregation: the list under
\* choices[0].delta when the payload has choices, the list at the top level
\* of the payload when it has none.
MergedFrom(e) ==
    IF e.Event # "json" \/ ~e.Data.ok THEN <<>>
    ELSE IF e.Data.choices = "delta" /\ e.Data.hasDeltaTC THEN Entries(e.Data.deltaTC)
    ELSE IF e.Data.choices = "absent" /\ e.Data.hasTopTC THEN Entries(e.Data.topTC)
    ELSE <<>>

\* C14: for a collected sequence that ends in done, the aggregated finish
\* reason is "tool_calls" when a tool call was merged from a structured event
\* before it and "stop" otherwise; a structured event whose payload carries
\* the one tool call with id "1", followed by done, aggregates to finish
\* reason "tool_calls", nil content and exactly that tool call.
C14_FinishReasonOfCompleteSequence ==
    (aDone /\ aIn # <<>> /\ aIn[Len(aIn)].Event = "done")
    => /\ aResp.finish =
            (IF \E k \in 1..(Len(aIn) - 1) : MergedFrom(aIn[k]) # <<>>
             THEN "tool_calls" ELSE "stop")
       /\ (aResp.finish = "tool_calls") <=> (aResp.toolCalls # <<>>)
       /\ (Len(aIn) = 2 /\ aIn[1].Event = "json" /\ aIn[1].Data.ok
                /\ aIn[1].Data.choices = "absent" /\ aIn[1].Data.hasTopTC
                /\ aIn[1].Data.topTC = <<TC1>>)
           => /\ aResp.finish = "tool_calls"
              /\ aResp.contentNull
              /\ Len(aResp.toolCalls) = 1
              /\ aResp.toolCalls[1].id = "1"

\* The scenario [json({tool_calls: [{id "1", ...}]}), done].
C14_Witness ==
    /\ aDone
    /\ aIn = << PoeSSEEvent("json", TopOf(<<TC1>>)), PoeSSEEvent("done", EmptyObj) >>
    /\ aResp.finish = "tool_calls" /\ aResp.contentNull

\* C15: the aggregated content is nil exactly when at least one tool call was
\* produced and the accumulated text is empty; when no tool call was produced
\* the content is present, even when it is the empty string; when an event left
\* text in the buffer the content is present too.
C15_ContentNilIffOnlyToolCalls ==
    aDone
    => /\ aResp.contentNull <=> (Len(aResp.toolCalls) >= 1 /\ aResp.content = <<>>)
       /\ (\A k \in 1..Len(aIn) : MergedFrom(aIn[k]) = <<>>) => ~aResp.contentNull
       /\ (aIn # <<>> /\ aIn[Len(aIn)].Event = "text" /\ aIn[Len(aIn)].Data.ok
              /\ aIn[Len(aIn)].Data.text # <<>>) => ~aResp.contentNull

\* An empty text and a tool call: nil content.
C15_Witness ==
    /\ aDone
    /\ Len(aIn) = 3
    /\ aIn[1] = PoeSSEEvent("text", TextOf(<<>>))
    /\ MergedFrom(aIn[2]) # <<>>
    /\ aIn[3].Event = "done"
    /\ aResp.contentNull /\ Len(aResp.toolCalls) >= 1

\* The marker m stands somewhere in the content.
HasMarker(content, m) ==
    \E c \in 1..(Len(content) - Len(m) + 1) : SubSeq(content, c, c + Len(m) - 1) = m

\* C16 (as claimed): whenever the collected sequence contains an error event,
\* the aggregated content holds the inline marker with the text the bot
\* reported (the generic fallback when the payload does not decode or has no
\* text) and the finish reason is "stop", whatever else the sequence holds.
C16_ErrorForcesStopAndMarker ==
    (aDone /\ \E k \in 1..Len(aIn) : aIn[k].Event = "error")
    => /\ aResp.finish = "stop"
       /\ ~aResp.contentNull
       /\ \A k \in 1..Len(aIn) :
             aIn[k].Event = "error"
             => HasMarker(aResp.content, ErrorMarker(ReportedText(aIn[k].Data)))

\* The text an event other than replace_response puts into the content: the
\* text of a text event, the delta content of a structured event (the
\* stringified data when it has neither choices nor tool calls), the marker of
\* an error event.  An event whose payload does not decode is skipped.
Bears(e) ==
    CASE e.Event = "text" /\ e.Data.ok -> e.Data.text
      [] e.Event = "json" /\ e.Data.ok /\ e.Data.choices = "delta" -> e.Data.deltaContent
      [] e.Event = "json" /\ e.Data.ok /\ e.Data.choices = "absent" /\ ~e.Data.hasTopTC ->
            Stringify(e.Data)
      [] e.Event = "error" -> ErrorMarker(ReportedText(e.Data))
      [] OTHER -> <<>>

\* A replace_response event whose payload decodes.
IsReplace(e) == e.Event = "replace_response" /\ e.Data.ok

\* The position of the last replace_response event of the collection, 0 when
\* there is none.
LastReplace ==
    IF \E k \in 1..Len(aIn) : IsReplace(aIn[k])
    THEN CHOOSE k \in 1..Len(aIn) :
            IsReplace(aIn[k]) /\ \A j \in (k + 1)..Len(aIn) : ~IsReplace(aIn[j])
    ELSE 0

\* The texts of the events from position k on, concatenated in order.
RECURSIVE TextsFrom(_)
TextsFrom(k) ==
    IF k > Len(aIn) THEN <<>> ELSE Bears(aIn[k]) \o TextsFrom(k + 1)

\* C17: the aggregated content is the text of the last replace_response event
\* followed by the texts, in order, of the content-bearing events after it;
\* without a replace_response event it is the texts of all of them in order.
\* So a text event appends and a replace_response event discards everything
\* accumulated before it.
C17_LastReplaceThenAppends ==
    aDone
    => aResp.content =
          (IF LastReplace = 0 THEN <<>> ELSE aIn[LastReplace].Data.text)
          \o TextsFrom(LastReplace + 1)

\* Text before a replace_response is discarded, text after it is appended.
C17_Witness ==
    /\ aDone
    /\ aIn = << PoeSSEEvent("text", TextOf(<<"Hi">>)),
                PoeSSEEvent("replace_response", TextOf(<<"Re">>)),
                PoeSSEEvent("text", TextOf(<<"Hi">>)) >>
    /\ aResp.content = <<"Re", "Hi">>

\* The tool-call entries found in a structured event: those nested under
\* choices[0].delta, then those at the top level of the payload.
FoundIn(e) ==
    IF e.Event # "json" \/ ~e.Data.ok THEN <<>>
    ELSE (IF e.Data.choices = "delta" /\ e.Data.hasDeltaTC
          THEN Entries(e.Data.deltaTC) ELSE <<>>)
         \o (IF e.Data.hasTopTC THEN Entries(e.Data.topTC) ELSE <<>>)

\* The entries found in the events from position k on, in arrival order.
RECURSIVE FoundFrom(_)
FoundFrom(k) ==
    IF k > Len(aIn) THEN <<>> ELSE FoundIn(aIn[k]) \o FoundFrom(k + 1)

\* C18 (as claimed): the aggregated tool-call list is the tool-call entries
\* found in the structured events, nested under choices/delta or at the top
\* level of the payload, in arrival order (event order, then entry order within
\* the event), none dropped or reordered.
C18_ToolCallsMergedInArrivalOrder ==
    aDone => aResp.toolCalls = FoundFrom(1)

\* The events the read loop dispatches when the reader holds buf and nothing
\* more of the body is to come: the parse of a body handed over in one read.
RECURSIVE ParseRest(_, _)
ParseRest(buf, st) ==
    LET r == ReadBytes(buf, TRUE)
    IN  IF r.status = "line"
        THEN ParseRest(r.rest, ProcessLine(r.line, st))
        ELSE EndOfStream(st).out

\* C19: however the transport splits the body into reads, the events
\* dispatched when the end of input is reached are those of the body handed
\* over in one read; and at every point of the parse, what was dispatched
\* together with what the rest of the body will give is that same list.
C19_ChunkingIndependent ==
    /\ sPc = "eof" => dispatched = ParseRest(respBody, Parsing(<<>>, <<>>, <<>>))
    /\ sPc = "reading"
       => ParseRest(readerBuf \o SubSeq(respBody, bodyRead + 1, Len(respBody)),
                    Parsing(currentEvent, accumulatedData, dispatched))
          = ParseRest(respBody, Parsing(<<>>, <<>>, <<>>))

\* A body of two events was parsed to its end although a read ended inside a
\* line.
C19_Witness ==
    /\ sPc = "eof" /\ fragmented
    /\ Len(dispatched) = 2
    /\ dispatched[1].Data # <<>>

\* The body "data: foo\ndata: bar\n\n".
FooBarBody ==
    <<"data:", " ", "foo", "\n">> \o <<"data:", " ", "bar", "\n">> \o <<"\n">>

\* C20 (as claimed): the body `data: foo`, `data: bar`, blank line yields
\* exactly one event, whose data is "foobar": the two remainders joined with
\* no newline and no white space between them.
C20_DataLinesConcatenated ==
    (sPc = "eof" /\ respBody = FooBarBody)
    => dispatched = << PoeSSEEvent(<<>>, <<"foo", "bar">>) >>

LastOf(seq, n) ==
    IF Len(seq) <= n THEN seq ELSE SubSeq(seq, Len(seq) - n + 1, Len(seq))

\* C22: for a sink of capacity wSize, GetLogs after n Write calls returns the
\* last min(n, wSize) entries written, oldest first: both the snapshot last
\* taken, against what had been written then, and the one that would be
\* taken now.
C22_LastEntriesOldestFirst ==
    wSize > 0
    => /\ GetLogs(wRing, wSize, wBuffer) = LastOf(written, wSize)
       /\ snapshotAt >= 0
          => finalLogs = LastOf(SubSeq(written, 1, snapshotAt), wSize)

\* A sink of capacity 2 after three writes: the first entry is gone.
C22_Witness ==
    /\ wSize = 2 /\ written = <<"a", "b", "b">> /\ snapshotAt = 3
    /\ finalLogs = <<"b", "b">>

\* The flags as call k of the session finds them.
FirstBefore(k) == IF k = 1 THEN TRUE ELSE tOut[k - 1].first

ToolBefore(k) == IF k = 1 THEN FALSE ELSE tOut[k - 1].tool

\* C23 (as claimed): the flag isFirstContentChunk goes from true to false
\* only in a call that returns a chunk with non-empty content or with tool
\* calls, or in the call for the done event.
C23_RoleTransitionNeedsContent ==
    \A k \in 1..Len(tOut) :
        (FirstBefore(k) /\ ~tOut[k].first)
        => \/ tIn[k].Event = "done"
           \/ (tOut[k].some /\ tOut[k].chunk.content # <<>>)
           \/ (tOut[k].some /\ tOut[k].chunk.toolCalls # <<>>)

\* C24: over the calls of one session isFirstContentChunk never goes from
\* false back to true and hasMadeToolCall never goes from true back to false.
C24_FlagsMonotone ==
    /\ \A k \in 1..Len(tOut) :
          /\ ~FirstBefore(k) => ~tOut[k].first
          /\ ToolBefore(k) => tOut[k].tool
    /\ tOut # <<>> => (tFirst = tOut[Len(tOut)].first /\ tTool = tOut[Len(tOut)].tool)

\* Both flags changed at the first event, a tool call; a structured event
\* without tool calls and a text event came after it.
C24_Witness ==
    /\ Len(tIn) = 3
    /\ ObservedToolCall(tIn[1])
    /\ tIn[2] = PoeSSEEvent("json", DeltaOf(FALSE, <<>>, <<"c">>))
    /\ tIn[3].Event = "text"
    /\ ~tFirst /\ tTool

\* A text, replace_response or json event whose payload does not decode.
DecodeFailure(e) == e.Event \in {"text", "replace_response", "json"} /\ ~e.Data.ok

Decodes(e) == ~DecodeFailure(e)

\* The handler receives an event in this step.
Receives == Len(received') = Len(received) + 1

\* C25: a decode failure of a text, replace_response or json event is
\* contained to that event.  In streaming mode the step that receives it
\* writes no frame, leaves the flags alone and puts the handler back at its
\* select; a step that receives an event ends the stream only for an error
\* event, for done, or when a write fails.  In non-streaming mode the
\* aggregated body is that of the collected events without the undecodable
\* ones.
C25_DecodeFailureContained ==
    /\ [][(Receives /\ DecodeFailure(received'[Len(received')].ev))
            => /\ hPc' = "select"
               /\ frames' = frames
               /\ isFirstContentChunkEvent' = isFirstContentChunkEvent
               /\ hasMadeToolCallEvent' = hasMadeToolCallEvent]_vars
    /\ [][(Receives /\ mode = "stream" /\ hPc' = "done" /\ writeErr' = writeErr)
            => received'[Len(received')].ev.Event \in {"error", "done"}]_vars
    /\ [](response.status = 200
            => response.body =
                  AggregatePoeEventsToOpenAIResponse(SelectSeq(allPoeEvents, Decodes)))

\* An undecodable text event was received, then a text event, whose chunk was
\* written.
C25_Witness ==
    /\ mode = "stream"
    /\ Len(received) = 2
    /\ received[1].ev = PoeSSEEvent("text", BadJSON)
    /\ received[2].ev = PoeSSEEvent("text", TextOf(<<"Hi">>))
    /\ Len(frames) = 1 /\ frames[1].src = 2

\* The parser holds an event that it has not dispatched: a label or data.
Pending == currentEvent # <<>> \/ accumulatedData # <<>>

\* The pending event as it would be dispatched.
PendingEvent == PoeSSEEvent(currentEvent, TrimSpace(accumulatedData))

\* What the next call of ReadBytes returns.
NextRead == ReadBytes(readerBuf, bodyRead = Len(respBody))

\* This step runs the loop body on the line that ReadBytes returns.
TakesLine ==
    sPc = "reading" /\ NextRead.status = "line" /\ readerBuf' = NextRead.rest
    /\ readerBuf' # readerBuf

\* C26 (as claimed): when a line that starts with event: is read while an
\* event with a label or with accumulated data is pending, the pending event
\* is dispatched before the new one starts, also when it has data and no
\* label.
C26_EventLineEmitsPending ==
    [][(TakesLine /\ HasPrefix(NextRead.line, "event:") /\ Pending)
        => /\ dispatched' = Append(dispatched, PendingEvent)
           /\ currentEvent' = TrimSpace(TrimPrefix(NextRead.line, "event:"))
           /\ accumulatedData' = <<>>]_vars

\* A line that is neither an event: nor a data: line and is empty once trimmed.
IsBlank(line) ==
    ~HasPrefix(line, "event:") /\ ~HasPrefix(line, "data:") /\ TrimSpace(line) = <<>>

\* C27: a blank line read while a label or accumulated data is pending
\* dispatches exactly one event, the pending one, and resets the label and the
\* accumulator; a blank line read with nothing pending dispatches nothing.
C27_BlankLineTerminates ==
    [][(TakesLine /\ IsBlank(NextRead.line))
        => /\ dispatched' = (IF Pending THEN Append(dispatched, PendingEvent)
                                        ELSE dispatched)
           /\ currentEvent' = <<>>
           /\ accumulatedData' = <<>>]_vars

\* The event "text" with data "foo" was terminated by a blank line; nothing
\* of it is left in the parser.
C27_Witness ==
    /\ sPc = "reading"
    /\ respBody
         = <<"event:", " ", "text", "\n">> \o <<"data:", " ", "foo", "\n">> \o <<"\n">>
    /\ bodyRead = Len(respBody) /\ readerBuf = <<>>
    /\ dispatched = << PoeSSEEvent(<<"text">>, <<"foo">>) >>
    /\ ~Pending

\* The body ends with a blank line.
EndsWithBlankLine(bytes) ==
    /\ bytes # <<>> /\ bytes[Len(bytes)] = "\n"
    /\ \E k \in 0..(Len(bytes) - 1) :
          /\ k > 0 => bytes[k] = "\n"
          /\ \A j \in (k + 1)..Len(bytes) : IsSpace(bytes[j])

\* C28: the step that reaches the end of input dispatches the pending event,
\* once, when a label or accumulated data is pending, and nothing otherwise;
\* in particular nothing when the body ends with a blank line.  It ends the
\* parse successfully.
C28_EndOfInputFlushesOnce ==
    [][(sPc = "reading" /\ sPc' = "eof")
        => /\ dispatched' = (IF Pending THEN Append(dispatched, PendingEvent)
                                        ELSE dispatched)
           /\ EndsWithBlankLine(respBody) => dispatched' = dispatched]_vars

\* A body that ends right after a data: line: its event is dispatched at the
\* end of input.
C28_Witness ==
    /\ sPc = "eof"
    /\ respBody = <<"event:", " ", "text", "\n">> \o <<"data:", " ", "foo", "\n">>
    /\ dispatched = << PoeSSEEvent(<<"text">>, <<"foo">>) >>

\* The step that leaves the loop head after a failed attempt starts the next
\* attempt when fewer than maxRetries + 1 were made, and reports the last
\* failure otherwise.
RetryWithinBudget ==
    (pPc = "iter" /\ pPc' # "iter" /\ attempts > 0)
        => IF attempts < maxRetries + 1
           THEN pPc' = "sleep" /\ sent' = sent
           ELSE pPc' = "closeErr" /\ sent' = Append(sent, FinalError(lastErr))

\* C29: a read failure other than end of input ends the attempt with an
\* error and not as the normal end: the step dispatches nothing, the attempt
\* is not a success, and the error is the cancellation when the context is
\* cancelled.  The check that follows reports the cancellation and makes no
\* further attempt when the context is cancelled; otherwise the loop goes on
\* and retries while fewer than maxRetries + 1 attempts were made.
C29_ReadFailureFailsAttempt ==
    /\ [][(pPc = "read" /\ pPc' = "check")
            => /\ lastErr' = Failure(attempts, IF cancelled THEN "ctx" ELSE "read")
               /\ ~succeeded'
               /\ cur' = cur /\ received' = received /\ frames' = frames]_vars
    /\ [][(pPc = "check" /\ pPc' # "check" /\ lastErr.cause \in {"read", "ctx"})
            => IF cancelled
               THEN /\ pPc' = "closeErr"
                    /\ sent' = Append(sent, Wrapped("context cancelled during retry", CtxErr))
               ELSE pPc' = "iter" /\ sent' = sent]_vars
    /\ [][lastErr.cause = "read" => RetryWithinBudget]_vars

\* The first attempt ended on a read failure and the second attempt is
\* reading.
C29_Witness ==
    /\ pPc = "read" /\ attempts = 2 /\ lastErr = Failure(1, "read")
    /\ ~cancelled /\ sent = <<>>

\* A 2xx status code.
Is2xx(code) == code \in 200..299

\* The last attempt failed on its status.
FailedOnStatus == \E code \in Statuses : lastErr.cause = StatusError(code)

\* C30 (as claimed): an attempt fails on its status only when the status is
\* not 2xx, and then without dispatching any event; the loop makes the next
\* attempt while fewer than maxRetries + 1 were made.  A response with a 2xx
\* status goes on to the read loop.
C30_OnlyNon2xxFailsOnStatus ==
    /\ [][\A code \in Statuses :
            (pPc = "perform" /\ pPc' = "check"
                /\ lastErr' = Failure(attempts, StatusError(code)))
               => /\ ~Is2xx(code)
                  /\ cur' = cur /\ received' = received /\ frames' = frames]_vars
    /\ [][(pPc = "check" /\ pPc' # "check" /\ FailedOnStatus /\ ~cancelled)
            => pPc' = "iter" /\ sent' = sent]_vars
    /\ [][FailedOnStatus => RetryWithinBudget]_vars

\* The causes of a failed attempt that the loop retries.
RetriedCauses == {"transport", "read"} \cup {StatusError(code) : code \in Statuses}

\* C31: an error event parsed from a stream is handed to the consumer like
\* any other event: the step that delivers it records no failure, sends
\* nothing on the error channel, starts no attempt and leaves the producer in
\* its read loop (or returning successfully at end of input).  An attempt
\* fails only on a transport, status or read failure or on the cancellation,
\* and only the first three are retried.
C31_ErrorEventForwardedNotRetried ==
    /\ [][(Len(received') = Len(received) + 1 /\ cur.Event = "error")
            => /\ received' = Append(received, [ev |-> cur, att |-> attempts])
               /\ lastErr' = lastErr /\ sent' = sent
               /\ attempts' = attempts /\ i' = i
               /\ pPc' = (IF atEOF THEN "closeErr" ELSE "read")]_vars
    /\ [][(pPc # "check" /\ pPc' = "check")
            => lastErr'.cause \in RetriedCauses \cup {"ctx"}]_vars
    /\ [][(pPc = "check" /\ pPc' = "iter") => lastErr.cause \in RetriedCauses]_vars

\* The only attempt delivered an error event and then reached end of input:
\* the session succeeded without a retry and without an error value.
C31_Witness ==
    /\ mode = "nonstream" /\ succeeded /\ attempts = 1 /\ sent = <<>>
    /\ lastErr = NoErr
    /\ \E k \in 1..Len(received) : received[k].ev = PoeSSEEvent("error", TextOf(<<"boom">>))

\* The error StreamQuery sends when it finds the context cancelled after a
\* failed attempt.
CancelledDuringRetry == Wrapped("context cancelled during retry", CtxErr)

\* C32: the cancellation check comes after a failed attempt and before the
\* backoff sleep: with the context cancelled the step after a failed attempt
\* sends the cancellation error and returns, and once that error is sent the
\* session neither sleeps nor starts another attempt; the sleep is entered
\* from the loop head only, which a failed attempt reaches through a check
\* that found the context live.
C32_CancelCheckedBeforeBackoff ==
    /\ [][(pPc = "check" /\ cancelled /\ pPc' # "check")
            => /\ pPc' = "closeErr"
               /\ sent' = Append(sent, CancelledDuringRetry)
               /\ attempts' = attempts]_vars
    /\ [][(pPc = "check" /\ pPc' # "check") => pPc' \in {"closeErr", "iter"}]_vars
    /\ [][(pPc # "sleep" /\ pPc' = "sleep") => pPc = "iter"]_vars
    /\ []((sent # <<>> /\ sent[1] = CancelledDuringRetry)
            => pPc \in {"closeErr", "closeEv", "done"})

\* The first attempt failed with the context cancelled: the cancellation was
\* reported at once and the goroutine returned after that one attempt.
C32_Witness ==
    /\ pPc = "done" /\ cancelled /\ attempts = 1
    /\ sent = << CancelledDuringRetry >>

\* The producer is in the select of dispatchPoeEvent.
Sending == pPc \in {"send", "sendParked"}

\* C33: events reach the handler through one unbuffered channel.  A step
\* that delivers an event is a rendezvous of the sending producer and the
\* receiving handler, and hands over exactly the event the producer is
\* sending, once.  The producer parses an event only when every event parsed
\* before was received, so the handler receives the events in the order they
\* were parsed; an event parsed and not received is either still being sent
\* or was dropped because the context was cancelled.
C33_EventsInOrderThroughRendezvous ==
    /\ [][received' # received
            => /\ \/ pPc = "send" /\ hPc = "parked"
                  \/ pPc = "sendParked" /\ hPc = "select"
               /\ received' = Append(received, [ev |-> cur, att |-> attempts])
               /\ cur' = Idle /\ ~Sending']_vars
    /\ [][produced' # produced
            => /\ Len(received) = produced /\ produced' = produced + 1
               /\ Sending' /\ received' = received]_vars
    /\ [](Len(received) <= produced /\ produced <= Len(received) + 1)
    /\ []((produced > Len(received) /\ ~Sending) => cancelled)

\* Two different events were parsed in one attempt and received in that
\* order.
C33_Witness ==
    /\ produced = 2 /\ Len(received) = 2
    /\ received[1] = [ev |-> PoeSSEEvent("text", TextOf(<<"Hi">>)), att |-> 1]
    /\ received[2] = [ev |-> PoeSSEEvent("meta", EmptyObj), att |-> 1]

\* The next step of the producer is a send on errChan.
AboutToSendErr ==
    \/ pPc = "check" /\ cancelled
    \/ pPc = "iter" /\ i >= maxRetries + 1

\* C34: errChan holds at most one value and at most one value is ever sent
\* on it.  Where the producer is about to send, nothing was sent and the slot
\* is free, so the send can be taken whatever the handler is doing; it leaves
\* the value with the handler or in the slot and the producer on its deferred
\* closes, which can always be taken too.
C34_ErrorSendNeverBlocks ==
    /\ [](Len(sent) <= 1 /\ Len(errBuf) <= 1)
    /\ [](AboutToSendErr => (sent = <<>> /\ errBuf = <<>>))
    /\ []((AboutToSendErr \/ pPc \in {"closeErr", "closeEv"}) => ENABLED Producer)
    /\ [][sent' # sent
            => /\ AboutToSendErr /\ pPc' = "closeErr"
               /\ \/ hPc = "parked" /\ hPc' = "done" /\ errBuf' = <<>>
                  \/ hPc # "parked" /\ errBuf' = sent']_vars

\* The handler had returned on the cancellation before the producer sent its
\* error: the error sits in the slot and both channels are closed.
C34_Witness ==
    /\ pPc = "done" /\ hPc = "done" /\ errClosed /\ evClosed
    /\ Len(sent) = 1 /\ errBuf = sent /\ framesAtErr >= 0

\* The events fed end in the done event, the only one, and hold no error
\* event.
EndsInDone(events) ==
    /\ events # <<>> /\ events[Len(events)].Event = "done"
    /\ \A k \in 1..(Len(events) - 1) : events[k].Event \notin {"error", "done"}

\* C35 (as claimed): the transducer and the aggregator read events alike.  A
\* json event has tool-call entries for the transducer exactly when it has
\* some for the aggregator, and for a sequence without error events that ends
\* in done the finish reason of the chunk of the done event is the finish
\* reason of the aggregated response.
C35_SameEventSemantics ==
    /\ \A k \in 1..Len(tIn) :
          tIn[k].Event = "json"
             => (JsonToolCalls(tIn[k].Data) # <<>>
                    <=> AggregateStep(tIn[k], NoCallYet).toolCalls # <<>>)
    /\ EndsInDone(tIn)
          => /\ tOut[Len(tOut)].some
             /\ tOut[Len(tOut)].chunk.finish
                   = AggregatePoeEventsToOpenAIResponse(tIn).finish

\* C36: once an attempt has reached the end of its input the goroutine is
\* returning: it starts no further attempt and no value is sent on errChan,
\* before or after; when it has returned both channels are closed, and
\* eventChan is never closed before errChan.
C36_SuccessClosesBothChannels ==
    /\ [](succeeded => (sent = <<>> /\ pPc \in {"closeErr", "closeEv", "done"}))
    /\ [][succeeded => (attempts' = attempts /\ sent' = sent /\ succeeded')]_vars
    /\ [](evClosed => errClosed)
    /\ []((succeeded /\ pPc = "done") => (errClosed /\ evClosed))

\* The first attempt failed to connect, the second delivered an event and
\* reached end of input; the goroutine returned with both channels closed.
C36_Witness ==
    /\ succeeded /\ pPc = "done" /\ attempts = 2 /\ ~cancelled
    /\ lastErr = Failure(1, "transport")
    /\ Len(received) = 1 /\ received[1].att = 2
    /\ errClosed /\ evClosed /\ sent = <<>>

\* C37: in streaming mode a [DONE] frame is the last frame written and the
\* handler has returned once it is written, so there is at most one and
\* nothing follows it; a done event the handler received is the last event
\* it received, so no later event becomes a chunk.
C37_DoneFrameOnceAndLast ==
    mode = "stream"
    => /\ \A k \in 1..Len(frames) :
             frames[k].kind = "done" => (k = Len(frames) /\ hPc = "done")
       /\ \A k \in 1..Len(received) :
             received[k].ev.Event = "done" => (k = Len(received) /\ hPc = "done")
       /\ \A k \in 1..Len(frames) :
             frames[k].kind = "chunk" => frames[k].src <= Len(received)

\* The handler wrote the chunk of the done event and [DONE]; the upstream
\* sent one more event, which the producer cannot hand over.
C37_Witness ==
    /\ mode = "stream" /\ hPc = "done" /\ ~cancelled
    /\ Len(received) = 1 /\ received[1].ev.Event = "done"
    /\ Len(frames) = 2 /\ frames[1].kind = "chunk" /\ frames[2] = DoneFrame
    /\ produced = 2 /\ pPc = "sendParked"

\* C38: once the handler has returned and the context is cancelled, the
\* producer is not blocked in a send: it is never parked in the select of
\* dispatchPoeEvent under a cancelled context and always has a step to take
\* until it has returned; it does return, with both channels closed.
C38_ProducerTerminates ==
    /\ [](cancelled => pPc # "sendParked")
    /\ []((hPc = "done" /\ cancelled /\ pPc # "done") => ENABLED Producer)
    /\ (hPc = "done" /\ cancelled) ~> (pPc = "done" /\ errClosed /\ evClosed)

\* The handler returned after the done event while the producer was blocked
\* sending one more event; the cancellation released the producer, which
\* reported it and returned.
C38_Witness ==
    /\ mode = "stream" /\ hPc = "done" /\ cancelled
    /\ pPc = "done" /\ errClosed /\ evClosed
    /\ Len(received) = 1 /\ received[1].ev.Event = "done" /\ produced = 2
    /\ sent = << CancelledDuringRetry >>

\* C39: a call of the transducer that returns no chunk, with or without an
\* error, leaves both flags as it found them.
C39_NoChunkLeavesFlags ==
    \A k \in 1..Len(tOut) :
        ~tOut[k].some
           => (tOut[k].first = FirstBefore(k) /\ tOut[k].tool = ToolBefore(k))

\* Before any chunk: a meta event, a text event with an undecodable payload
\* and a json event with an empty delta return no chunk, and the flags are
\* as at the start.
C39_Witness ==
    /\ tIn = << PoeSSEEvent("meta", EmptyObj), PoeSSEEvent("text", BadJSON),
                PoeSSEEvent("json", DeltaOf(TRUE, <<>>, <<>>)) >>
    /\ \A k \in 1..3 : ~tOut[k].some
    /\ tOut[2].err = "skip" /\ tOut[3].err = ""
    /\ tFirst /\ ~tTool

\* The bytes up to and including the last newline.
Terminated(bytes) ==
    LET ends == {k \in 1..Len(bytes) : bytes[k] = "\n"}
    IN  IF ends = {} THEN <<>>
        ELSE SubSeq(bytes, 1, CHOOSE k \in ends : \A j \in ends : j <= k)

\* C40: what follows the last newline of the body is not interpreted: the
\* events dispatched when the end of input is reached are those of the body
\* cut after its last newline, and the step that reaches the end of input
\* dispatches at most the event that the terminated lines left pending.
C40_UnterminatedLineIgnored ==
    /\ [](sPc = "eof"
            => dispatched = ParseRest(Terminated(respBody), Parsing(<<>>, <<>>, <<>>)))
    /\ [][(sPc = "reading" /\ sPc' = "eof")
            => /\ NextRead.line = SubSeq(respBody, Len(Terminated(respBody)) + 1,
                                         Len(respBody))
               /\ dispatched' \in {dispatched, Append(dispatched, PendingEvent)}]_vars

\* The body ends inside a data: line: the event "text" is dispatched at the
\* end of input without the data of that line.
C40_Witness ==
    /\ sPc = "eof"
    /\ respBody = <<"event:", " ", "text", "\n">> \o <<"data:", " ", "foo">>
    /\ dispatched = << PoeSSEEvent(<<"text">>, <<>>) >>

====
